---- MODULE Spec2Model ----
(***************************************************************************)
(* Model of app.py: the credential store (users.json), the per-user        *)
(* progress store (data/user_progress/<user>.json), the uploads directory  *)
(* and the status derivation of the dashboard and detail pages.            *)
(*                                                                         *)
(* Time is counted in whole hours.  A timestamp string produced by         *)
(* datetime.isoformat() is the pair <<day, hour-of-day>>; JSON null in a   *)
(* date field is the empty sequence.  A file is a record [kind, data]:     *)
(* kind "json" holds parsed data, "corrupt" is text json.load rejects,     *)
(* "missing" is no file.                                                   *)
(***************************************************************************)
EXTENDS Integers, Sequences, FiniteSets, TLC

VARIABLES now, ALGORITHMS, users_file, progress_files, uploads,
          result, calls, reg_password, entry_in, status_out,
          tabs, writes, session_state

(***************************************************************************)
(* now            the clock, in hours                                      *)
(* ALGORITHMS     the catalog as read from algorithms/algorithm_list.json  *)
(* users_file     data/users.json                                          *)
(* progress_files data/user_progress/<username>.json, one per username     *)
(* uploads        uploads/<username>/: whether the directory exists and    *)
(*                the <<file name, content>> pairs in it                   *)
(* result         the last call made and what it returned; ret is "True",  *)
(*                "False", "doc" (load, with the document in doc) or the   *)
(*                exception that ended the call; at and repeated tell      *)
(*                whether calls were made in a row                         *)
(* calls          the number of calls and file changes so far; MaxCalls    *)
(*                bounds the length of the sequences explored              *)
(* reg_password   history: the password given at each user's last          *)
(*                successful registration                                  *)
(* entry_in, status_out  input and output of the status derivation         *)
(* tabs           two browser sessions of one user, each inside a call of  *)
(*                start_algorithm: where it is, the document it holds,     *)
(*                what it returned; seen and wrote are history             *)
(* writes         history: the number of saves the tabs have made          *)
(* session_state  st.session_state of one browser session                  *)
(***************************************************************************)
vars == <<now, ALGORITHMS, users_file, progress_files, uploads,
          result, calls, reg_password, entry_in, status_out,
          tabs, writes, session_state>>

session_vars == <<tabs, writes, session_state>>

----------------------------------------------------------------------------
(* Bounds of the model *)

StartClock == 22
MaxClock == 24
MaxCalls == 3
RecursionLimit == 3
MaxEstimate == 3

\* st.number_input(..., min_value=1, ...)
MinHours == 1

Usernames == {"alice", "bob"}
Passwords == {1, 2}
Salts == {0, 1}
DisplayNames == {"Ann"}
ExtraAlgorithms == {"Decision Tree"}
FileContents == {"bytes1"}
NoteTexts == {"todo"}
HourChoices == {MinHours}

----------------------------------------------------------------------------
(* Values *)

EmptyMap == [x \in {} |-> x]
NullDate == <<>>
NullFile == "null"
NoUpload == "no upload"

isoformat(t) == <<t \div 24, t % 24>>

fromisoformat(s) == s[1] * 24 + s[2]

DEFAULT_ALGORITHMS ==
    [a \in {"Linear Regression", "Logistic Regression"} |->
        IF a = "Linear Regression"
        THEN [category |-> "Beginner", default_estimated_hours |-> 10]
        ELSE [category |-> "Beginner", default_estimated_hours |-> 12]]

ExtraCatalog ==
    [a \in ExtraAlgorithms |->
        [category |-> "Intermediate", default_estimated_hours |-> 1]]

AlgoNames == DOMAIN DEFAULT_ALGORITHMS \cup ExtraAlgorithms

CatalogEntry(a) ==
    IF a \in DOMAIN DEFAULT_ALGORITHMS THEN DEFAULT_ALGORITHMS[a]
    ELSE ExtraCatalog[a]

\* algo_name.replace(' ', '_') + ".py"
upload_basename(a) ==
    CASE a = "Linear Regression" -> "Linear_Regression.py"
      [] a = "Logistic Regression" -> "Logistic_Regression.py"
      [] a = "Decision Tree" -> "Decision_Tree.py"
      [] OTHER -> "other.py"

NoDoc == [algorithms |-> EmptyMap, last_updated |-> NullDate]

json_dump(data) == [kind |-> "json", data |-> data]
MissingFile(empty) == [kind |-> "missing", data |-> empty]
CorruptFile(empty) == [kind |-> "corrupt", data |-> empty]

----------------------------------------------------------------------------
(* Password hashing: generate_password_hash salts the password,           *)
(* check_password_hash recomputes the digest with the stored salt.         *)

digest(salt, password) == password * Cardinality(Salts) + salt

generate_password_hash(password, salt) ==
    [salt |-> salt, digest |-> digest(salt, password)]

check_password_hash_salt_only(pwhash, password) ==
    pwhash.salt \in Salts

check_password_hash(pwhash, password) ==
    pwhash.digest = digest(pwhash.salt, password)

----------------------------------------------------------------------------
(* Credential store *)

load_users_forgets ==
    [users |-> EmptyMap, file |-> json_dump(EmptyMap)]

load_users ==
    IF users_file.kind = "json"
    THEN [users |-> users_file.data, file |-> users_file]
    ELSE [users |-> EmptyMap, file |-> json_dump(EmptyMap)]

save_users(users) == json_dump(users)

username_exists_never(users, username) == FALSE

\* register_user: if username in users
username_exists(users, username) == username \in DOMAIN users

----------------------------------------------------------------------------
(* Progress store *)

DefaultEntry(a) ==
    [category |-> ALGORITHMS[a].category,
     started |-> FALSE,
     start_date |-> NullDate,
     completed |-> FALSE,
     completion_date |-> NullDate,
     estimated_hours |-> ALGORITHMS[a].default_estimated_hours,
     actual_hours |-> 0,
     implementation_file |-> NullFile,
     notes |-> ""]

NewProgress ==
    [algorithms |-> [a \in DOMAIN ALGORITHMS |-> DefaultEntry(a)],
     last_updated |-> isoformat(now)]

MergeCatalog_none(progress) == progress

MergeCatalog_rebuild(progress) ==
    [progress EXCEPT !.algorithms =
        [a \in DOMAIN ALGORITHMS |->
            IF a \in DOMAIN progress.algorithms
            THEN progress.algorithms[a]
            ELSE DefaultEntry(a)]]

MergeCatalog(progress) ==
    [progress EXCEPT !.algorithms =
        [a \in (DOMAIN progress.algorithms) \cup (DOMAIN ALGORITHMS) |->
            IF a \in DOMAIN progress.algorithms
            THEN progress.algorithms[a]
            ELSE DefaultEntry(a)]]

RECURSIVE load_user_progress(_, _)
load_user_progress_returns_unfilled(file, depth) ==
    IF file.kind = "missing"
    THEN [raised |-> FALSE,
          progress |-> [NewProgress EXCEPT !.algorithms = EmptyMap],
          file |-> json_dump(NewProgress)]
    ELSE IF file.kind = "json"
    THEN [raised |-> FALSE, progress |-> MergeCatalog(file.data),
          file |-> file]
    ELSE IF depth >= RecursionLimit
    THEN [raised |-> TRUE, progress |-> NoDoc, file |-> file]
    ELSE load_user_progress(file, depth + 1)

load_user_progress(file, depth) ==
    IF file.kind = "missing"
    THEN [raised |-> FALSE, progress |-> NewProgress,
          file |-> json_dump(NewProgress)]
    ELSE IF file.kind = "json"
    THEN [raised |-> FALSE, progress |-> MergeCatalog(file.data),
          file |-> file]
    ELSE IF depth >= RecursionLimit
    THEN [raised |-> TRUE, progress |-> NoDoc, file |-> file]
    ELSE load_user_progress(file, depth + 1)

save_user_progress(progress) ==
    json_dump([progress EXCEPT !.last_updated = isoformat(now)])

----------------------------------------------------------------------------
(* Initial state: module level of app.py on a fresh installation *)

NoResult ==
    [op |-> "none", username |-> "", algo |-> "", ret |-> "none",
     doc |-> NoDoc, at |-> 0, repeated |-> FALSE]

\* at is the count of calls and file changes once the call has returned;
\* repeated tells that the call made directly before it, with nothing in
\* between, was the same call for the same user.
Returned(op, u, a, ret, doc) ==
    [op |-> op, username |-> u, algo |-> a, ret |-> ret, doc |-> doc,
     at |-> calls + 1,
     repeated |-> result.at = calls /\ result.op = op
                    /\ result.username = u]

NoEntry ==
    [category |-> "", started |-> FALSE, start_date |-> NullDate,
     completed |-> FALSE, completion_date |-> NullDate,
     estimated_hours |-> 1, actual_hours |-> 0,
     implementation_file |-> NullFile, notes |-> ""]

TabIds == {"tab1", "tab2"}

IdleTab ==
    [pc |-> "idle", algo |-> "", progress |-> NoDoc, ret |-> "none",
     seen |-> 0, wrote |-> 0]

\* main: the session state before the first login
NoSession ==
    [logged_in |-> FALSE, username |-> "", selected_algorithm |-> "",
     show_upload |-> FALSE]

NoStatus ==
    [dashboard |-> "unrendered",
     detail |-> [status |-> "unrendered", exceeded_by |-> 0]]

Init ==
    /\ now = StartClock
    /\ ALGORITHMS = DEFAULT_ALGORITHMS
    /\ users_file = json_dump(EmptyMap)
    /\ progress_files = [u \in Usernames |-> MissingFile(NoDoc)]
    /\ uploads = [u \in Usernames |-> [dir |-> FALSE, files |-> {}]]
    /\ result = NoResult
    /\ calls = 0
    /\ reg_password = [u \in Usernames |-> 0]
    /\ entry_in = NoEntry
    /\ status_out = NoStatus
    /\ tabs = [t \in TabIds |-> IdleTab]
    /\ writes = 0
    /\ session_state = NoSession

----------------------------------------------------------------------------
(* Operations of the progress store *)

Load(u) ==
    /\ calls < MaxCalls
    /\ calls' = calls + 1
    /\ LET r == load_user_progress(progress_files[u], 0)
       IN  /\ progress_files' = [progress_files EXCEPT ![u] = r.file]
           /\ result' = IF r.raised
                        THEN Returned("load", u, "", "RecursionError", NoDoc)
                        ELSE Returned("load", u, "", "doc", r.progress)
    /\ UNCHANGED <<now, ALGORITHMS, users_file, uploads, reg_password,
                   entry_in, status_out>>
    /\ UNCHANGED session_vars

----------------------------------------------------------------------------
(* Operations of the credential store *)

\* What register_user returns and leaves in the files it writes
register_call(username, password, name, salt) ==
    LET loaded == load_users
    IN  IF username_exists(loaded.users, username)
        THEN [ret |-> "False", users_file |-> loaded.file,
              progress_file |-> progress_files[username],
              upload_dir |-> uploads[username]]
        ELSE LET account == [password_hash |->
                                 generate_password_hash(password, salt),
                             name |-> name,
                             created_at |-> isoformat(now)]
                 users == [n \in DOMAIN loaded.users \cup {username} |->
                             IF n = username THEN account
                             ELSE loaded.users[n]]
             IN  [ret |-> "True", users_file |-> save_users(users),
                  progress_file |-> json_dump(NewProgress),
                  upload_dir |-> [uploads[username] EXCEPT !.dir = TRUE]]

register_user(username, password, name, salt) ==
    /\ calls < MaxCalls
    /\ calls' = calls + 1
    /\ LET c == register_call(username, password, name, salt)
       IN  /\ users_file' = c.users_file
           /\ progress_files' =
                [progress_files EXCEPT ![username] = c.progress_file]
           /\ uploads' = [uploads EXCEPT ![username] = c.upload_dir]
           /\ reg_password' =
                IF c.ret = "True"
                THEN [reg_password EXCEPT ![username] = password]
                ELSE reg_password
           /\ result' = Returned("register", username, "", c.ret, NoDoc)
    /\ UNCHANGED <<now, ALGORITHMS, entry_in, status_out>>
    /\ UNCHANGED session_vars

\* What verify_user returns and leaves in the users file
verify_call(username, password) ==
    LET loaded == load_users
    IN  [ret |-> IF username \notin DOMAIN loaded.users
                 THEN "False"
                 ELSE IF check_password_hash(
                             loaded.users[username].password_hash, password)
                 THEN "True"
                 ELSE "False",
         users_file |-> loaded.file]

verify_user(username, password) ==
    /\ calls < MaxCalls
    /\ calls' = calls + 1
    /\ LET c == verify_call(username, password)
       IN  /\ users_file' = c.users_file
           /\ result' = Returned("verify", username, "", c.ret, NoDoc)
    /\ UNCHANGED <<now, ALGORITHMS, progress_files, uploads, reg_password,
                   entry_in, status_out>>
    /\ UNCHANGED session_vars

----------------------------------------------------------------------------
(* start and complete *)

StartedEntry_date_only(entry) ==
    [entry EXCEPT !.start_date = isoformat(now)]

StartedEntry(entry) ==
    [entry EXCEPT !.started = TRUE, !.start_date = isoformat(now)]

\* What start_algorithm returns and leaves in the progress file
start_call(username, algo_name) ==
    LET r == load_user_progress(progress_files[username], 0)
    IN  IF r.raised
        THEN [ret |-> "RecursionError", file |-> progress_files[username]]
        ELSE IF algo_name \notin DOMAIN r.progress.algorithms
        THEN [ret |-> "False", file |-> r.file]
        ELSE LET progress ==
                     [r.progress EXCEPT !.algorithms[algo_name] =
                         StartedEntry(r.progress.algorithms[algo_name])]
             IN  [ret |-> "True", file |-> save_user_progress(progress)]

start_algorithm(username, algo_name) ==
    /\ calls < MaxCalls
    /\ calls' = calls + 1
    /\ LET c == start_call(username, algo_name)
       IN  /\ progress_files' = [progress_files EXCEPT ![username] = c.file]
           /\ result' = Returned("start", username, algo_name, c.ret, NoDoc)
    /\ UNCHANGED <<now, ALGORITHMS, users_file, uploads, reg_password,
                   entry_in, status_out>>
    /\ UNCHANGED session_vars

ActualHours_always(entry, completion_date) ==
    fromisoformat(completion_date) -
        (IF entry.start_date # NullDate
         THEN fromisoformat(entry.start_date)
         ELSE 0)

ActualHours(entry, completion_date) ==
    IF entry.start_date # NullDate
    THEN fromisoformat(completion_date) - fromisoformat(entry.start_date)
    ELSE entry.actual_hours

CompletedEntry(entry, algo_name, implementation_file) ==
    LET completion_date == isoformat(now)
    IN  [entry EXCEPT
            !.completed = TRUE,
            !.completion_date = completion_date,
            !.actual_hours = ActualHours(entry, completion_date),
            !.implementation_file =
                IF implementation_file # NoUpload
                THEN upload_basename(algo_name)
                ELSE entry.implementation_file]

StoreUpload(dir, algo_name, implementation_file) ==
    IF implementation_file = NoUpload
    THEN dir
    ELSE [dir |-> TRUE,
          files |-> {f \in dir.files : f[1] # upload_basename(algo_name)}
                    \cup {<<upload_basename(algo_name), implementation_file>>}]

\* What complete_algorithm returns and leaves in the progress file and the
\* uploads directory
complete_call(username, algo_name, implementation_file) ==
    LET r == load_user_progress(progress_files[username], 0)
    IN  IF r.raised
        THEN [ret |-> "RecursionError", file |-> progress_files[username],
              upload_dir |-> uploads[username]]
        ELSE IF algo_name \notin DOMAIN r.progress.algorithms
        THEN [ret |-> "False", file |-> r.file,
              upload_dir |-> uploads[username]]
        ELSE LET progress ==
                     [r.progress EXCEPT !.algorithms[algo_name] =
                         CompletedEntry(r.progress.algorithms[algo_name],
                                        algo_name, implementation_file)]
             IN  [ret |-> "True", file |-> save_user_progress(progress),
                  upload_dir |-> StoreUpload(uploads[username], algo_name,
                                             implementation_file)]

complete_algorithm(username, algo_name, implementation_file) ==
    /\ calls < MaxCalls
    /\ calls' = calls + 1
    /\ LET c == complete_call(username, algo_name, implementation_file)
       IN  /\ progress_files' = [progress_files EXCEPT ![username] = c.file]
           /\ uploads' = [uploads EXCEPT ![username] = c.upload_dir]
           /\ result' =
                Returned("complete", username, algo_name, c.ret, NoDoc)
    /\ UNCHANGED <<now, ALGORITHMS, users_file, reg_password,
                   entry_in, status_out>>
    /\ UNCHANGED session_vars

----------------------------------------------------------------------------
(* Edits made on the detail page: the page loads the document, and saves  *)
(* it when the widget value differs from the stored field.                *)

DetailEdit(op, username, algo_name, field, value) ==
    /\ calls < MaxCalls
    /\ calls' = calls + 1
    /\ LET r == load_user_progress(progress_files[username], 0)
       IN  IF r.raised
           THEN /\ result' = Returned(op, username, algo_name,
                                      "RecursionError", NoDoc)
                /\ UNCHANGED progress_files
           ELSE IF algo_name \notin DOMAIN r.progress.algorithms
           THEN /\ result' =
                     Returned(op, username, algo_name, "not found", NoDoc)
                /\ progress_files' =
                     [progress_files EXCEPT ![username] = r.file]
           ELSE IF value = r.progress.algorithms[algo_name][field]
           THEN /\ result' =
                     Returned(op, username, algo_name, "unchanged", NoDoc)
                /\ progress_files' =
                     [progress_files EXCEPT ![username] = r.file]
           ELSE LET progress ==
                        [r.progress EXCEPT
                            !.algorithms[algo_name][field] = value]
                IN  /\ progress_files' =
                         [progress_files EXCEPT
                            ![username] = save_user_progress(progress)]
                    /\ result' =
                         Returned(op, username, algo_name, "saved", NoDoc)
    /\ UNCHANGED <<now, ALGORITHMS, users_file, uploads, reg_password,
                   entry_in, status_out>>
    /\ UNCHANGED session_vars

update_estimated_hours(username, algo_name, hours) ==
    DetailEdit("estimated_hours", username, algo_name,
               "estimated_hours", hours)

update_notes(username, algo_name, notes) ==
    DetailEdit("notes", username, algo_name, "notes", notes)

----------------------------------------------------------------------------
(* Environment: the catalog file is edited out of band and read again at  *)
(* the next script run; a stored file can be left unparsable; the clock    *)
(* advances.                                                               *)

AddAlgorithm(a) ==
    /\ calls < MaxCalls
    /\ calls' = calls + 1
    /\ a \notin DOMAIN ALGORITHMS
    /\ ALGORITHMS' = [b \in DOMAIN ALGORITHMS \cup {a} |-> CatalogEntry(b)]
    /\ UNCHANGED <<now, users_file, progress_files, uploads, result,
                   reg_password, entry_in, status_out>>
    /\ UNCHANGED session_vars

RemoveAlgorithm(a) ==
    /\ calls < MaxCalls
    /\ calls' = calls + 1
    /\ a \in DOMAIN ALGORITHMS
    /\ ALGORITHMS' = [b \in DOMAIN ALGORITHMS \ {a} |-> ALGORITHMS[b]]
    /\ UNCHANGED <<now, users_file, progress_files, uploads, result,
                   reg_password, entry_in, status_out>>
    /\ UNCHANGED session_vars

CorruptProgress(u) ==
    /\ calls < MaxCalls
    /\ calls' = calls + 1
    /\ progress_files[u].kind = "json"
    /\ progress_files' = [progress_files EXCEPT ![u] = CorruptFile(NoDoc)]
    /\ UNCHANGED <<now, ALGORITHMS, users_file, uploads, result,
                   reg_password, entry_in, status_out>>
    /\ UNCHANGED session_vars

CorruptUsers ==
    /\ calls < MaxCalls
    /\ calls' = calls + 1
    /\ users_file.kind = "json"
    /\ users_file' = CorruptFile(EmptyMap)
    /\ UNCHANGED <<now, ALGORITHMS, progress_files, uploads, result,
                   reg_password, entry_in, status_out>>
    /\ UNCHANGED session_vars

Tick ==
    /\ now < MaxClock
    /\ now' = now + 1
    /\ UNCHANGED <<ALGORITHMS, users_file, progress_files, uploads, result,
                   calls, reg_password, entry_in, status_out>>
    /\ UNCHANGED session_vars

\* The progress store does not read the password, the salt or the display
\* name: here a registration is drawn with the first of each.
Next ==
    \/ \E u \in Usernames : register_user(u, 1, "Ann", 0)
    \/ \E u \in Usernames : Load(u)
    \/ \E u \in Usernames, a \in AlgoNames : start_algorithm(u, a)
    \/ \E u \in Usernames, a \in AlgoNames,
          f \in FileContents \cup {NoUpload} : complete_algorithm(u, a, f)
    \/ \E u \in Usernames, a \in AlgoNames, h \in HourChoices :
          update_estimated_hours(u, a, h)
    \/ \E u \in Usernames, a \in AlgoNames, t \in NoteTexts :
          update_notes(u, a, t)
    \/ \E a \in ExtraAlgorithms : AddAlgorithm(a)
    \/ \E a \in AlgoNames : RemoveAlgorithm(a)
    \/ \E u \in Usernames : CorruptProgress(u)
    \/ Tick

Spec == Init /\ [][Next]_vars

\* The credential store, with the registrations drawn in full; a start
\* gives the progress documents contents a registration can overwrite.
\* data/users.json is removed out of band
RemoveUsers ==
    /\ calls < MaxCalls
    /\ calls' = calls + 1
    /\ users_file.kind = "json"
    /\ users_file' = MissingFile(EmptyMap)
    /\ UNCHANGED <<now, ALGORITHMS, progress_files, uploads, result,
                   reg_password, entry_in, status_out>>
    /\ UNCHANGED session_vars

NextAuth ==
    \/ \E u \in Usernames, p \in Passwords, n \in DisplayNames, s \in Salts :
          register_user(u, p, n, s)
    \/ \E u \in Usernames, p \in Passwords : verify_user(u, p)
    \/ \E u \in Usernames, a \in AlgoNames : start_algorithm(u, a)
    \/ CorruptUsers
    \/ RemoveUsers
    \/ Tick

SpecAuth == Init /\ [][NextAuth]_vars

----------------------------------------------------------------------------
(* Status derivation, once on the dashboard card and once on the detail   *)
(* page.  SpecStatus applies both to an entry and a clock reading drawn    *)
(* from bounded sets; a stored document is input, so every combination of  *)
(* the flags and the start timestamp is drawn.                             *)

dashboard_status_strict(algo_data, t) ==
    IF algo_data.completed
    THEN "Completed"
    ELSE IF algo_data.started
    THEN IF algo_data.start_date # NullDate
         THEN IF t - fromisoformat(algo_data.start_date)
                     >= algo_data.estimated_hours
              THEN "Delayed"
              ELSE "In Progress"
         ELSE "In Progress"
    ELSE "Not Started"

dashboard_status(algo_data, t) ==
    IF algo_data.completed
    THEN "Completed"
    ELSE IF algo_data.started
    THEN IF algo_data.start_date # NullDate
         THEN IF t - fromisoformat(algo_data.start_date)
                     > algo_data.estimated_hours
              THEN "Delayed"
              ELSE "In Progress"
         ELSE "In Progress"
    ELSE "Not Started"

detail_status(algo_data, t) ==
    IF algo_data.completed
    THEN [status |-> "Completed", exceeded_by |-> 0]
    ELSE IF algo_data.started
    THEN IF algo_data.start_date # NullDate
         THEN LET elapsed_hours == t - fromisoformat(algo_data.start_date)
              IN  IF elapsed_hours > algo_data.estimated_hours
                  THEN [status |-> "Delayed",
                        exceeded_by |->
                            elapsed_hours - algo_data.estimated_hours]
                  ELSE [status |-> "In Progress", exceeded_by |-> 0]
         ELSE [status |-> "In Progress", exceeded_by |-> 0]
    ELSE [status |-> "Not Started", exceeded_by |-> 0]

ClockReadings == StartClock .. MaxClock

EntryInputs ==
    [category : {"Beginner"},
     started : BOOLEAN,
     start_date : {NullDate} \cup {isoformat(t) : t \in ClockReadings},
     completed : BOOLEAN,
     completion_date : {NullDate, isoformat(MaxClock)},
     estimated_hours : MinHours .. MaxEstimate,
     actual_hours : {0},
     implementation_file : {NullFile},
     notes : {""}]

InitStatus ==
    /\ now \in ClockReadings
    /\ ALGORITHMS = DEFAULT_ALGORITHMS
    /\ users_file = json_dump(EmptyMap)
    /\ progress_files = [u \in Usernames |-> MissingFile(NoDoc)]
    /\ uploads = [u \in Usernames |-> [dir |-> FALSE, files |-> {}]]
    /\ result = NoResult
    /\ calls = 0
    /\ reg_password = [u \in Usernames |-> 0]
    /\ entry_in \in EntryInputs
    /\ status_out = NoStatus
    /\ tabs = [t \in TabIds |-> IdleTab]
    /\ writes = 0
    /\ session_state = NoSession

RenderDashboard ==
    /\ status_out.dashboard = "unrendered"
    /\ status_out' =
         [status_out EXCEPT !.dashboard = dashboard_status(entry_in, now)]
    /\ UNCHANGED <<now, ALGORITHMS, users_file, progress_files, uploads,
                   result, calls, reg_password, entry_in>>
    /\ UNCHANGED session_vars

RenderDetail ==
    /\ status_out.detail.status = "unrendered"
    /\ status_out' =
         [status_out EXCEPT !.detail = detail_status(entry_in, now)]
    /\ UNCHANGED <<now, ALGORITHMS, users_file, progress_files, uploads,
                   result, calls, reg_password, entry_in>>
    /\ UNCHANGED session_vars

NextStatus == RenderDashboard \/ RenderDetail

SpecStatus == InitStatus /\ [][NextStatus]_vars

----------------------------------------------------------------------------
(* Two browser sessions of one user, each running start_algorithm.  The    *)
(* function reads the whole document, changes its copy and writes the      *)
(* whole document back; nothing locks the file, so the two script runs     *)
(* interleave between the read and the write.                              *)

TabUser == "alice"

\* start_algorithm up to its check of the name: the document is read (and
\* created or filled on the way); an unknown name ends the call
TabLoad(t, algo_name) ==
    /\ tabs[t].pc = "idle"
    /\ LET r == load_user_progress(progress_files[TabUser], 0)
       IN  /\ progress_files' = [progress_files EXCEPT ![TabUser] =
                                    IF r.raised THEN @ ELSE r.file]
           /\ tabs' = [tabs EXCEPT ![t] =
                IF r.raised
                THEN [@ EXCEPT !.pc = "done", !.algo = algo_name,
                               !.ret = "RecursionError"]
                ELSE IF algo_name \notin DOMAIN r.progress.algorithms
                THEN [@ EXCEPT !.pc = "done", !.algo = algo_name,
                               !.ret = "False"]
                ELSE [@ EXCEPT !.pc = "loaded", !.algo = algo_name,
                               !.progress = r.progress, !.seen = writes]]
    /\ UNCHANGED <<now, ALGORITHMS, users_file, uploads, result, calls,
                   reg_password, entry_in, status_out, writes,
                   session_state>>

\* the rest of start_algorithm: the copy read earlier is changed and saved
TabSave(t) ==
    /\ tabs[t].pc = "loaded"
    /\ LET progress ==
               [tabs[t].progress EXCEPT !.algorithms[tabs[t].algo] =
                   StartedEntry(tabs[t].progress.algorithms[tabs[t].algo])]
       IN  /\ progress_files' = [progress_files EXCEPT ![TabUser] =
                                    save_user_progress(progress)]
           /\ tabs' = [tabs EXCEPT ![t] =
                         [@ EXCEPT !.pc = "done", !.progress = progress,
                                   !.ret = "True", !.wrote = writes + 1]]
    /\ writes' = writes + 1
    /\ UNCHANGED <<now, ALGORITHMS, users_file, uploads, result, calls,
                   reg_password, entry_in, status_out, session_state>>

NextTabs ==
    \/ \E t \in TabIds, a \in AlgoNames : TabLoad(t, a)
    \/ \E t \in TabIds : TabSave(t)
    \/ Tick

SpecTabs == Init /\ [][NextTabs]_vars

----------------------------------------------------------------------------
(* One browser session: st.session_state and the buttons of the three      *)
(* pages.  Every click runs the script once; main routes on logged_in and  *)
(* selected_algorithm.  None is the empty string.  The dashboard and the   *)
(* detail page load the user's document at each run; registration wrote    *)
(* the document and nothing here removes it, so only the run after a login *)
(* can find it absent.                                                     *)

Page ==
    IF ~session_state.logged_in THEN "login"
    ELSE IF session_state.selected_algorithm # "" THEN "detail"
    ELSE "dashboard"

\* the document the dashboard or the detail page works on
PageProgress ==
    load_user_progress(progress_files[session_state.username], 0).progress

\* algorithm_detail: algo_name is found in the document
DetailShown ==
    /\ Page = "detail"
    /\ session_state.selected_algorithm \in DOMAIN PageProgress.algorithms

algo_data == PageProgress.algorithms[session_state.selected_algorithm]

\* login_page: Register, with the two password fields equal and no field
\* empty
UIRegister(new_username, new_password, name, salt) ==
    /\ Page = "login"
    /\ LET c == register_call(new_username, new_password, name, salt)
       IN  /\ users_file' = c.users_file
           /\ progress_files' =
                [progress_files EXCEPT ![new_username] = c.progress_file]
           /\ uploads' = [uploads EXCEPT ![new_username] = c.upload_dir]
           /\ reg_password' =
                IF c.ret = "True"
                THEN [reg_password EXCEPT ![new_username] = new_password]
                ELSE reg_password
    /\ UNCHANGED <<now, ALGORITHMS, result, calls, entry_in, status_out,
                   tabs, writes, session_state>>

\* login_page: Login, and the dashboard run that follows a success
UILogin(username, password) ==
    /\ Page = "login"
    /\ LET c == verify_call(username, password)
           r == load_user_progress(progress_files[username], 0)
       IN  /\ users_file' = c.users_file
           /\ IF c.ret = "True"
              THEN /\ session_state' =
                        [session_state EXCEPT !.logged_in = TRUE,
                                              !.username = username]
                   /\ progress_files' =
                        [progress_files EXCEPT ![username] =
                            IF r.raised THEN @ ELSE r.file]
              ELSE UNCHANGED <<session_state, progress_files>>
    /\ UNCHANGED <<now, ALGORITHMS, uploads, result, calls, reg_password,
                   entry_in, status_out, tabs, writes>>

\* dashboard: Logout
UILogout ==
    /\ Page = "dashboard"
    /\ session_state' = [session_state EXCEPT !.logged_in = FALSE,
                                              !.username = ""]
    /\ UNCHANGED <<now, ALGORITHMS, users_file, progress_files, uploads,
                   result, calls, reg_password, entry_in, status_out,
                   tabs, writes>>

\* dashboard: Details on the card of algo_name
UISelect(algo_name) ==
    /\ Page = "dashboard"
    /\ algo_name \in DOMAIN PageProgress.algorithms
    /\ session_state' =
         [session_state EXCEPT !.selected_algorithm = algo_name]
    /\ UNCHANGED <<now, ALGORITHMS, users_file, progress_files, uploads,
                   result, calls, reg_password, entry_in, status_out,
                   tabs, writes>>

\* algorithm_detail: Back to Dashboard
UIBack ==
    /\ Page = "detail"
    /\ session_state' = [session_state EXCEPT !.selected_algorithm = ""]
    /\ UNCHANGED <<now, ALGORITHMS, users_file, progress_files, uploads,
                   result, calls, reg_password, entry_in, status_out,
                   tabs, writes>>

\* algorithm_detail: Start Algorithm, shown while the entry is not started
UIStart ==
    /\ DetailShown
    /\ ~algo_data.started
    /\ LET c == start_call(session_state.username,
                           session_state.selected_algorithm)
       IN  progress_files' =
             [progress_files EXCEPT ![session_state.username] = c.file]
    /\ UNCHANGED <<now, ALGORITHMS, users_file, uploads, result, calls,
                   reg_password, entry_in, status_out, tabs, writes,
                   session_state>>

\* algorithm_detail: Mark as Completed, shown while the entry is started
\* and not completed
UIMarkCompleted ==
    /\ DetailShown
    /\ algo_data.started /\ ~algo_data.completed
    /\ session_state' = [session_state EXCEPT !.show_upload = TRUE]
    /\ UNCHANGED <<now, ALGORITHMS, users_file, progress_files, uploads,
                   result, calls, reg_password, entry_in, status_out,
                   tabs, writes>>

\* algorithm_detail: Submit Implementation, shown while show_upload is set
\* and a file is chosen
UISubmit(uploaded_file) ==
    /\ DetailShown
    /\ session_state.show_upload
    /\ LET c == complete_call(session_state.username,
                              session_state.selected_algorithm,
                              uploaded_file)
       IN  /\ progress_files' =
                [progress_files EXCEPT ![session_state.username] = c.file]
           /\ uploads' =
                [uploads EXCEPT ![session_state.username] = c.upload_dir]
    /\ session_state' = [session_state EXCEPT !.show_upload = FALSE]
    /\ UNCHANGED <<now, ALGORITHMS, users_file, result, calls,
                   reg_password, entry_in, status_out, tabs, writes>>

\* the people at this browser
UIUsers == {"alice"}

NextUI ==
    \/ \E u \in UIUsers, p \in Passwords, n \in DisplayNames :
          UIRegister(u, p, n, 0)
    \/ \E u \in UIUsers, p \in Passwords : UILogin(u, p)
    \/ UILogout
    \/ \E a \in AlgoNames : UISelect(a)
    \/ UIBack
    \/ UIStart
    \/ UIMarkCompleted
    \/ \E f \in FileContents : UISubmit(f)
    \/ Tick

SpecUI == Init /\ [][NextUI]_vars

----------------------------------------------------------------------------
(* C8: the status shown is Completed whenever completed is set; otherwise, *)
(* for a started entry, Delayed when a start timestamp is present and the  *)
(* hours since it exceed the estimate strictly, In Progress when the       *)
(* timestamp is absent or the hours are within the estimate; otherwise Not *)
(* Started.  The dashboard card and the detail page give the same status   *)
(* for every entry and clock reading.                                      *)

StatusLabels == {"Completed", "Delayed", "In Progress", "Not Started"}

HoursSince(entry) == now - fromisoformat(entry.start_date)

ClaimedStatus(label) ==
    /\ label \in StatusLabels
    /\ entry_in.completed => label = "Completed"
    /\ (~entry_in.completed /\ entry_in.started
          /\ entry_in.start_date # NullDate
          /\ HoursSince(entry_in) > entry_in.estimated_hours)
        => label = "Delayed"
    /\ (~entry_in.completed /\ entry_in.started
          /\ entry_in.start_date = NullDate)
        => label = "In Progress"
    /\ (~entry_in.completed /\ entry_in.started
          /\ entry_in.start_date # NullDate
          /\ HoursSince(entry_in) <= entry_in.estimated_hours)
        => label = "In Progress"
    /\ (~entry_in.completed /\ ~entry_in.started) => label = "Not Started"

C8_StatusDerivation ==
    /\ status_out.dashboard # "unrendered"
        => ClaimedStatus(status_out.dashboard)
    /\ status_out.detail.status # "unrendered"
        => ClaimedStatus(status_out.detail.status)

C8_Witness ==
    /\ status_out.dashboard = "In Progress"
    /\ status_out.detail.status = "In Progress"
    /\ entry_in.start_date # NullDate
    /\ HoursSince(entry_in) = entry_in.estimated_hours

----------------------------------------------------------------------------
(* Readings of the stored state used by the properties below *)

Registered(u) == users_file.kind = "json" /\ u \in DOMAIN users_file.data

StoredEntries(file) ==
    IF file.kind = "json" THEN file.data.algorithms ELSE EmptyMap

Entries(u) == StoredEntries(progress_files[u])

\* The entry start and complete act on: the stored one, or the default the
\* load puts in for a catalog algorithm the document lacks.
KnownAlgorithms(u) ==
    IF progress_files[u].kind = "corrupt" THEN {}
    ELSE DOMAIN Entries(u) \cup DOMAIN ALGORITHMS

AtDefaults(entry, a) ==
    /\ entry.started = FALSE
    /\ entry.completed = FALSE
    /\ entry.start_date = NullDate
    /\ entry.completion_date = NullDate
    /\ entry.estimated_hours = ALGORITHMS[a].default_estimated_hours
    /\ entry.actual_hours = 0
    /\ entry.implementation_file = NullFile
    /\ entry.notes = ""

\* A step of the named call, told by the result it leaves
LoadStep(u) ==
    result'.op = "load" /\ result'.username = u /\ Load(u)

StartStep(u, a) ==
    /\ result'.op = "start" /\ result'.username = u /\ result'.algo = a
    /\ start_algorithm(u, a)

CompleteStep(u, a) ==
    /\ result'.op = "complete" /\ result'.username = u /\ result'.algo = a
    /\ \E f \in FileContents \cup {NoUpload} : complete_algorithm(u, a, f)

EntriesKept(u) ==
    \A a \in DOMAIN Entries(u) :
        /\ a \in DOMAIN StoredEntries(progress_files'[u])
        /\ StoredEntries(progress_files'[u])[a] = Entries(u)[a]

----------------------------------------------------------------------------
(* C1: in every reachable state every progress entry of every user has    *)
(* completed => started and started => a start timestamp is present.      *)

C1_CompletedImpliesStarted ==
    \A u \in Usernames : \A a \in DOMAIN Entries(u) :
        /\ Entries(u)[a].completed => Entries(u)[a].started
        /\ Entries(u)[a].started => Entries(u)[a].start_date # NullDate

(* C2: every entry holding both timestamps has completion >= start.       *)

C2_CompletionNotBeforeStart ==
    \A u \in Usernames : \A a \in DOMAIN Entries(u) :
        (Entries(u)[a].start_date # NullDate
            /\ Entries(u)[a].completion_date # NullDate)
        => fromisoformat(Entries(u)[a].completion_date)
             >= fromisoformat(Entries(u)[a].start_date)

(* C3: a load of a document that exists but does not parse returns a      *)
(* fresh document with one default entry per catalog algorithm, and that  *)
(* document is what the file holds afterwards.                            *)

C3_CorruptTreatedAsAbsent ==
    [][\A u \in Usernames :
        (LoadStep(u) /\ progress_files[u].kind = "corrupt")
        => /\ result'.ret = "doc"
           /\ DOMAIN result'.doc.algorithms = DOMAIN ALGORITHMS
           /\ \A a \in DOMAIN ALGORITHMS :
                 AtDefaults(result'.doc.algorithms[a], a)
           /\ progress_files'[u] = json_dump(result'.doc)]_vars

(* C4: the document a load returns holds an entry for every algorithm of  *)
(* the catalog as it is at the time of the load, for every user and after *)
(* any earlier operations and catalog changes.                            *)

C4_LoadCoversCatalog ==
    [][\A u \in Usernames :
        (LoadStep(u) /\ result'.ret = "doc")
        => \A a \in DOMAIN ALGORITHMS : a \in DOMAIN result'.doc.algorithms]_vars

C4_Witness ==
    /\ result.op = "load"
    /\ result.ret = "doc"
    /\ \E a \in DOMAIN ALGORITHMS :
          /\ a \in DOMAIN result.doc.algorithms
          /\ a \notin DOMAIN Entries(result.username)
    /\ \E a \in DOMAIN Entries(result.username) :
          Entries(result.username)[a].started

(* C5: register is rejected for a username that is present, leaving the   *)
(* credential store and all progress documents as they were; otherwise it *)
(* returns true, stores the account and writes a progress document with   *)
(* exactly the catalog algorithms, each at its defaults.                  *)

C5_Register ==
    [][\A u \in Usernames, p \in Passwords, n \in DisplayNames, s \in Salts :
        (result'.op = "register" /\ result'.username = u
            /\ register_user(u, p, n, s))
        => IF Registered(u)
           THEN /\ result'.ret = "False"
                /\ users_file' = users_file
                /\ progress_files' = progress_files
           ELSE /\ result'.ret = "True"
                /\ users_file'.kind = "json"
                /\ u \in DOMAIN users_file'.data
                /\ check_password_hash(users_file'.data[u].password_hash, p)
                /\ users_file'.data[u].name = n
                /\ progress_files'[u].kind = "json"
                /\ DOMAIN progress_files'[u].data.algorithms
                     = DOMAIN ALGORITHMS
                /\ \A a \in DOMAIN ALGORITHMS :
                     AtDefaults(progress_files'[u].data.algorithms[a], a)]_vars

C5_Witness ==
    /\ result.op = "register"
    /\ result.ret = "False"
    /\ Registered(result.username)
    /\ \E a \in DOMAIN Entries(result.username) :
          Entries(result.username)[a].started

(* C6: verify returns true only for a registered username with the        *)
(* password given at that user's registration, false for any other        *)
(* password and for an unknown username, and leaves existing accounts     *)
(* as they are.                                                           *)

C6_Verify ==
    [][\A u \in Usernames, p \in Passwords :
        (result'.op = "verify" /\ result'.username = u /\ verify_user(u, p))
        => /\ result'.ret \in {"True", "False"}
           /\ result'.ret = "True" => (Registered(u) /\ p = reg_password[u])
           /\ (~Registered(u) \/ p # reg_password[u]) => result'.ret = "False"
           /\ users_file.kind = "json" => users_file' = users_file]_vars

C6_Witness ==
    /\ result.op = "verify"
    /\ result.ret = "False"
    /\ Registered(result.username)
    /\ \E v \in Usernames \ {result.username} : Registered(v)

(* C7: start and complete return false, modifying no progress entry, when *)
(* the user's document is missing or the algorithm is not one of the      *)
(* document; in every other case they return true.                        *)

C7_Fails(u, a) ==
    \/ progress_files[u].kind = "missing"
    \/ a \notin KnownAlgorithms(u)

C7_StartCompleteFailure ==
    [][\A u \in Usernames, a \in AlgoNames :
        (StartStep(u, a) \/ CompleteStep(u, a))
        => IF C7_Fails(u, a)
           THEN /\ result'.ret = "False"
                /\ \A v \in Usernames : EntriesKept(v)
           ELSE result'.ret = "True"]_vars

(* C9: a load of an existing document returns every stored entry with all *)
(* its fields as stored, entries of algorithms no longer in the catalog   *)
(* included, and a default entry for each catalog algorithm the document  *)
(* lacks.                                                                 *)

C9_LoadMigrates ==
    [][\A u \in Usernames :
        (LoadStep(u) /\ progress_files[u].kind = "json")
        => /\ result'.ret = "doc"
           /\ \A a \in DOMAIN Entries(u) :
                 /\ a \in DOMAIN result'.doc.algorithms
                 /\ result'.doc.algorithms[a] = Entries(u)[a]
           /\ \A a \in DOMAIN ALGORITHMS \ DOMAIN Entries(u) :
                 /\ a \in DOMAIN result'.doc.algorithms
                 /\ AtDefaults(result'.doc.algorithms[a], a)]_vars

C9_Witness ==
    /\ result.op = "load"
    /\ result.ret = "doc"
    /\ \E a \in ExtraAlgorithms :
          /\ a \in DOMAIN ALGORITHMS
          /\ a \in DOMAIN result.doc.algorithms
          /\ a \notin DOMAIN Entries(result.username)
    /\ \E a \in DOMAIN Entries(result.username) :
          /\ Entries(result.username)[a].started
          /\ result.doc.algorithms[a] = Entries(result.username)[a]

C9_OrphanWitness ==
    /\ result.op = "load"
    /\ result.ret = "doc"
    /\ \E a \in DOMAIN result.doc.algorithms : a \notin DOMAIN ALGORITHMS

(* C10: a successful complete sets completed and the completion timestamp *)
(* to the current time; with a start timestamp, actual hours become the   *)
(* hours from start to completion, and without one they stay as they      *)
(* were.  Directly after a successful start of the same entry, the        *)
(* completion is not before the start and actual hours are the clock      *)
(* difference between the two calls, zero or more.                        *)

EntryBefore(u, a) ==
    IF a \in DOMAIN Entries(u) THEN Entries(u)[a] ELSE DefaultEntry(a)

C10_Complete ==
    [][\A u \in Usernames, a \in AlgoNames :
        (CompleteStep(u, a) /\ result'.ret = "True")
        => LET before == EntryBefore(u, a)
               after == StoredEntries(progress_files'[u])[a]
           IN  /\ after.completed
               /\ after.completion_date = isoformat(now)
               /\ before.start_date # NullDate
                  => after.actual_hours
                       = now - fromisoformat(before.start_date)
               /\ before.start_date = NullDate
                  => after.actual_hours = before.actual_hours
               /\ (result.op = "start" /\ result.ret = "True"
                     /\ result.username = u /\ result.algo = a)
                  => /\ after.start_date # NullDate
                     /\ fromisoformat(after.completion_date)
                          >= fromisoformat(after.start_date)
                     /\ after.actual_hours >= 0
                     /\ after.actual_hours
                          = fromisoformat(after.completion_date)
                              - fromisoformat(after.start_date)]_vars

C10_Witness ==
    /\ result.op = "complete"
    /\ result.ret = "True"
    /\ result.algo \in DOMAIN Entries(result.username)
    /\ LET e == Entries(result.username)[result.algo]
       IN  /\ e.completed
           /\ e.start_date # NullDate
           /\ e.actual_hours > 0
           /\ e.actual_hours = fromisoformat(e.completion_date)
                                 - fromisoformat(e.start_date)

(* C11: two loads of the same user's document in a row, with no call and  *)
(* no file or catalog change between them, return the same algorithm      *)
(* entries, whether the first load created the document or read it.       *)

C11_LoadIdempotent ==
    [][\A u \in Usernames :
        (LoadStep(u) /\ result.op = "load" /\ result.username = u
            /\ result.at = calls /\ result.ret = "doc")
        => /\ result'.ret = "doc"
           /\ result'.doc.algorithms = result.doc.algorithms]_vars

C11_Witness ==
    /\ result.op = "load"
    /\ result.ret = "doc"
    /\ result.repeated
    /\ result.at = calls
    /\ \E a \in DOMAIN result.doc.algorithms :
          result.doc.algorithms[a].started

C11_CreatedWitness ==
    /\ result.op = "load"
    /\ result.ret = "doc"
    /\ result.repeated
    /\ calls = 2
    /\ result.doc.last_updated = isoformat(StartClock)
    /\ now > StartClock

----------------------------------------------------------------------------
(* C12: two sessions of one user start two different algorithms and both   *)
(* calls return true.  The save made last decides the stored document: it  *)
(* holds the last saver's algorithm as started, and the other algorithm as *)
(* started only when the last saver read the document after the other had  *)
(* saved.  When both read before either saved, the document ends with one  *)
(* of the two algorithms started: the other update is lost.                *)

BothStarted ==
    /\ \A t \in TabIds : tabs[t].pc = "done" /\ tabs[t].ret = "True"
    /\ tabs["tab1"].algo # tabs["tab2"].algo

StartedInFile(a) ==
    /\ progress_files[TabUser].kind = "json"
    /\ a \in DOMAIN progress_files[TabUser].data.algorithms
    /\ progress_files[TabUser].data.algorithms[a].started

C12_LastSaveWins ==
    BothStarted =>
        \A last \in TabIds, first \in TabIds :
            tabs[last].wrote > tabs[first].wrote =>
                /\ StartedInFile(tabs[last].algo)
                /\ StartedInFile(tabs[first].algo)
                       <=> tabs[last].seen >= tabs[first].wrote

C12_LostUpdate ==
    /\ BothStarted
    /\ \E t \in TabIds : ~StartedInFile(tabs[t].algo)
    /\ \E t \in TabIds : StartedInFile(tabs[t].algo)

----------------------------------------------------------------------------
(* C13, as stated: once register has returned true for U, every users file *)
(* the system leaves behind holds U with the hash of the password given at *)
(* registration, also after the reads that heal a missing or unparsable    *)
(* users file.                                                             *)
C13_AccountNeverDeleted ==
    \A u \in Usernames :
        (reg_password[u] # 0 /\ users_file.kind = "json")
        => /\ Registered(u)
           /\ check_password_hash(users_file.data[u].password_hash,
                                  reg_password[u])

VerifyStep(u, p) ==
    result'.op = "verify" /\ result'.username = u /\ verify_user(u, p)

RegisterStep(u, p, n, s) ==
    result'.op = "register" /\ result'.username = u
        /\ register_user(u, p, n, s)

(* C13, amended: while the users file is parsable an account stays as it   *)
(* was stored: every step that finds U in the file and leaves a parsable   *)
(* file leaves U's record unchanged, the stored hash is that of the        *)
(* password given at registration, verify(U, p) returns true and           *)
(* register(U, ...) is rejected.  A call that reads a missing or           *)
(* unparsable users file replaces it by an empty store: no earlier account *)
(* is left, verify returns false and register succeeds.                    *)
C13_AccountKeptWhileParsable ==
    [][\A u \in Usernames :
        /\ (Registered(u) /\ users_file'.kind = "json")
           => /\ u \in DOMAIN users_file'.data
              /\ users_file'.data[u] = users_file.data[u]
              /\ check_password_hash(users_file.data[u].password_hash,
                                     reg_password[u])
        /\ (Registered(u) /\ VerifyStep(u, reg_password[u]))
           => result'.ret = "True"
        /\ \A p \in Passwords, n \in DisplayNames, s \in Salts :
              RegisterStep(u, p, n, s)
              => (result'.ret = "False" <=> Registered(u))
        /\ (users_file.kind # "json" /\ users_file' # users_file)
           => /\ users_file'.kind = "json"
              /\ DOMAIN users_file'.data \subseteq
                    IF result'.op = "register" /\ result'.ret = "True"
                    THEN {result'.username} ELSE {}
              /\ result'.op = "verify" => result'.ret = "False"]_vars

C13_Witness ==
    /\ result.op = "verify" /\ result.ret = "True"
    /\ result.at = MaxCalls
    /\ Registered(result.username)
    /\ now > fromisoformat(users_file.data[result.username].created_at)

C13_HealedWitness ==
    /\ result.op = "verify" /\ result.ret = "False"
    /\ result.username \in Usernames
    /\ reg_password[result.username] # 0
    /\ users_file = json_dump(EmptyMap)

----------------------------------------------------------------------------
(* C14: whenever the upload panel is active (show_upload set) on the       *)
(* detail page of an algorithm of the logged-in user's document, that      *)
(* entry is started and not completed, so Submit Implementation calls      *)
(* complete_algorithm only for such an entry.                              *)
C14_UploadPanelOnlyInProgress ==
    (DetailShown /\ session_state.show_upload)
    => (algo_data.started /\ ~algo_data.completed)

====
